---------------------------- MODULE Spec2Model ----------------------------
(***************************************************************************)
(* Model of deal_forwarder_bot_render.py: the insert-first deduplication   *)
(* and forwarding pipeline.  Every inbound update starts one run of        *)
(* handler (NewMessage) or album_handler (Album); the runs are asyncio     *)
(* tasks that interleave at their await points and share one table,        *)
(* forwarded_deals, whose uniqueness constraint over (product_key,         *)
(* day_bucket) decides which run may forward.                              *)
(*                                                                         *)
(* Text is a sequence of atoms.  An atom is one character ("a", "A", " ",  *)
(* "!", "?", "/") or a literal fragment that the regular expressions of    *)
(* the program treat as a unit ("https://s.co", "/dp/B0AAAAAAAA", ...).    *)
(* sha256 is taken to be injective: a digest is represented by the text    *)
(* it was computed from.                                                   *)
(***************************************************************************)
EXTENDS Integers, Sequences, FiniteSets, TLC

\* Number of handler runs (updates delivered); run i is the i-th update to arrive.
NumRuns == 2
Runs == 1..NumRuns

\* The dates date.today().isoformat() passes through: the runs of one behaviour
\* fall on one day or on both sides of one midnight.
Calendar == <<"2026-11-02", "2026-11-03">>

\* Python's None for row_id; ids of the table start at 1.
None == 0

-----------------------------------------------------------------------------
(* Text helpers                                                             *)

Scheme == "https://s.co"
AmazonDp == {"/dp/B0AAAAAAAA", "/dp/B0BBBBBBBB"}

IsSpace(c) == c = " "

\* The characters str.rstrip(").,;!?:]}'\"") removes from the end of a URL.
IsTrailingPunct(c) == c \in {"!", "?"}

\* One atom after lower() and re.sub(r"[^\w\s]", " ", ...): word tokens and spaces.
NormAtom(c) ==
  CASE c = "a" -> <<"a">>
    [] c = "A" -> <<"a">>
    [] c = "b" -> <<"b">>
    [] c = "B" -> <<"b">>
    [] c = " " -> <<" ">>
    [] c = "!" -> <<" ">>
    [] c = "?" -> <<" ">>
    [] c = "/" -> <<" ">>
    [] c = Scheme -> <<"https", " ", " ", " ", "s", " ", "co">>
    [] c = "/dp/B0AAAAAAAA" -> <<" ", "dp", " ", "b0aaaaaaaa">>
    [] c = "/dp/B0BBBBBBBB" -> <<" ", "dp", " ", "b0bbbbbbbb">>
    [] OTHER -> <<c>>

RECURSIVE FlatNorm(_)
FlatNorm(text) ==
  IF text = <<>> THEN <<>> ELSE NormAtom(Head(text)) \o FlatNorm(Tail(text))

\* re.sub(r"\s+", " ", text): runs of whitespace become one space.
RECURSIVE Collapse(_)
Collapse(s) ==
  IF Len(s) <= 1 THEN s
  ELSE IF IsSpace(s[1]) /\ IsSpace(s[2]) THEN Collapse(Tail(s))
  ELSE <<s[1]>> \o Collapse(Tail(s))

RECURSIVE LStrip(_)
LStrip(s) == IF s # <<>> /\ IsSpace(Head(s)) THEN LStrip(Tail(s)) ELSE s

RECURSIVE RStrip(_)
RStrip(s) ==
  IF s # <<>> /\ IsSpace(s[Len(s)]) THEN RStrip(SubSeq(s, 1, Len(s) - 1)) ELSE s

\* str.strip()
Strip(s) == RStrip(LStrip(s))

normalize_text(text) == Strip(Collapse(FlatNorm(text)))

\* hashlib.sha256(...).hexdigest(), injective on the texts of the model.
text_hash(text) == <<"sha256:">> \o text

\* The end of the match of [^\s<>"]+ that starts at position i.
RECURSIVE UrlEnd(_, _)
UrlEnd(text, i) ==
  IF i < Len(text) /\ ~IsSpace(text[i + 1]) THEN UrlEnd(text, i + 1) ELSE i

RECURSIVE RStripPunct(_)
RStripPunct(u) ==
  IF u # <<>> /\ IsTrailingPunct(u[Len(u)])
    THEN RStripPunct(SubSeq(u, 1, Len(u) - 1)) ELSE u

\* _URL_RE.finditer from position i on: the matches, left to right, not overlapping.
RECURSIVE UrlsFrom(_, _)
UrlsFrom(text, i) ==
  IF i > Len(text) THEN <<>>
  ELSE IF text[i] = Scheme
    THEN <<RStripPunct(SubSeq(text, i, UrlEnd(text, i)))>>
           \o UrlsFrom(text, UrlEnd(text, i) + 1)
  ELSE UrlsFrom(text, i + 1)

extract_urls(text) == IF text = <<>> THEN <<>> ELSE UrlsFrom(text, 1)

\* (?:[/?]|$) after a product id at position i of url: the end, or "/" or "?",
\* also as the first character of the next fragment.
EndsId(url, i) == i = Len(url) \/ url[i + 1] \in {"/", "?"} \cup AmazonDp

\* The product id inside a fragment: "/dp/B0AAAAAAAA" carries "B0AAAAAAAA".
ProductId(c) ==
  CASE c = "/dp/B0AAAAAAAA" -> "B0AAAAAAAA"
    [] c = "/dp/B0BBBBBBBB" -> "B0BBBBBBBB"
    [] OTHER -> ""

\* re.search(r"/dp/([A-Z0-9]{10})(?:[/?]|$)", url): the leftmost match.  The
\* other patterns (/gp/product/, asin=, pid=, itm...) need characters that no
\* atom of the model contains, so they never match.  None is the empty tuple.
extract_product_key(url) ==
  LET dp == {i \in 1..Len(url) : url[i] \in AmazonDp /\ EndsId(url, i)}
      first(S) == CHOOSE i \in S : \A j \in S : i <= j
  IN IF url = <<>> THEN <<>>
     ELSE IF dp # {} THEN <<"amazon_", ProductId(url[first(dp)])>>
     ELSE <<>>

\* Variant: only the first URL of the text is looked at.
FirstProductKey_first_url(urls) ==
  IF urls = <<>> THEN <<>> ELSE extract_product_key(Head(urls))

\* for u in urls: product_key = extract_product_key(u); if product_key: break
RECURSIVE FirstProductKey(_)
FirstProductKey(urls) ==
  IF urls = <<>> THEN <<>>
  ELSE IF extract_product_key(Head(urls)) # <<>> THEN extract_product_key(Head(urls))
  ELSE FirstProductKey(Tail(urls))

-----------------------------------------------------------------------------
(* Updates delivered by the client                                          *)

\* A message as the handlers read it: msg.id, msg.grouped_id (None is 0),
\* msg.message and whether msg.media is set.
Msg(id, grouped_id, message, media) ==
  [id |-> id, grouped_id |-> grouped_id, message |-> message, media |-> media]

\* events.NewMessage.Event: one message of chat_id.
NewMessage(chat_id, m) ==
  [handler |-> "handler", chat_id |-> chat_id, messages |-> <<m>>]

\* events.Album.Event: the messages of one group of chat_id.
Album(chat_id, ms) ==
  [handler |-> "album_handler", chat_id |-> chat_id, messages |-> ms]

ProductUrl == <<Scheme, "/dp/B0AAAAAAAA">>

\* The same text up to case and punctuation, from two chats, one with media.
SameText ==
  << NewMessage(1, Msg(1, None, <<"A", "b", "!">>, FALSE)),
     NewMessage(2, Msg(1, None, <<"a", "b">>, TRUE)) >>

\* No media and a text that normalizes to nothing: blank, and punctuation only.
NoContent ==
  << NewMessage(1, Msg(2, None, <<" ">>, FALSE)),
     NewMessage(1, Msg(3, None, <<"!">>, FALSE)) >>

\* Two messages with media and no text.
MediaOnly ==
  << NewMessage(1, Msg(4, None, <<>>, TRUE)),
     NewMessage(1, Msg(5, None, <<>>, TRUE)) >>

\* Two albums with media and no text.
MediaOnlyAlbums ==
  << Album(1, <<Msg(6, 7, <<>>, TRUE), Msg(7, 7, <<>>, TRUE)>>),
     Album(2, <<Msg(8, 9, <<>>, TRUE), Msg(9, 9, <<>>, TRUE)>>) >>

\* A message of an album as NewMessage delivers it, and the album.
AlbumAndMember ==
  << NewMessage(1, Msg(6, 7, <<"a">>, TRUE)),
     Album(1, <<Msg(6, 7, <<"a">>, TRUE), Msg(7, 7, <<>>, TRUE)>>) >>

\* One product URL under two captions, in a message and in an album.
SameProduct ==
  << NewMessage(2, Msg(2, None, <<"a", " ">> \o ProductUrl \o <<"!">>, FALSE)),
     Album(2, <<Msg(12, 13, <<>>, TRUE),
                Msg(13, 13, <<"B", " ">> \o ProductUrl, TRUE)>>) >>

\* Albums without media: without any text, and with a text.
NoMediaAlbums ==
  << Album(1, <<Msg(10, 11, <<>>, FALSE), Msg(11, 11, <<>>, FALSE)>>),
     Album(1, <<Msg(14, 15, <<>>, FALSE), Msg(15, 15, <<"b">>, FALSE)>>) >>

Families == {SameText, NoContent, MediaOnly, MediaOnlyAlbums, AlbumAndMember,
             SameProduct, NoMediaAlbums}

\* The updates of one behaviour, in their order of arrival: NumRuns updates of
\* one family.  Runs differ only in their update, so the order within the
\* family is fixed.
Inboxes ==
  UNION { { [r \in 1..NumRuns |-> F[idx[r]]] :
              idx \in {f \in [1..NumRuns -> 1..Len(F)] :
                         \A i, j \in 1..NumRuns : i <= j => f[i] <= f[j]} }
          : F \in Families }

\* Posts about products, each with the product id of the first product URL
\* written into its body ("" when the body names no product): the URL under
\* different captions, with and without media, in a message and in an album,
\* after a URL that is no product URL, after a URL whose id is too long; and a
\* blank message.
ProductPosts ==
  << [product |-> "B0AAAAAAAA",
      upd |-> NewMessage(1, Msg(20, None, <<"a", " ">> \o ProductUrl \o <<"!">>, FALSE))],
     [product |-> "B0AAAAAAAA",
      upd |-> Album(2, <<Msg(21, 22, <<Scheme, "/dp/B0BBBBBBBB", "a">>, TRUE),
                         Msg(22, 22, <<"B", " ">> \o ProductUrl, TRUE)>>)],
     [product |-> "B0AAAAAAAA",
      upd |-> NewMessage(2, Msg(23, None,
                                <<Scheme, "/", "a", " ">> \o ProductUrl
                                  \o <<"?", " ", "b">>, TRUE))],
     [product |-> "",
      upd |-> NewMessage(1, Msg(24, None, <<" ">>, FALSE))] >>

\* NumRuns different posts, in their order of arrival.
ProductInboxes ==
  { [r \in 1..NumRuns |-> ProductPosts[idx[r]].upd] :
      idx \in {f \in [1..NumRuns -> 1..Len(ProductPosts)] :
                 \A i, j \in 1..NumRuns : i < j => f[i] < f[j]} }

\* Longest text of a message, and most messages of an album, of the updates
\* below.
MaxText == 1
MaxMembers == 2

\* Texts of letters and spaces: none, a word, blanks.
RelayTexts == UNION {[1..n -> {"a", " "}] : n \in 0..MaxText}

\* Every message and every album of these texts, with and without media.
RelayUpdates ==
  {NewMessage(1, Msg(30, None, t, m)) : t \in RelayTexts, m \in BOOLEAN}
    \cup UNION { {Album(1, [i \in 1..n |-> Msg(30 + i, 40, c[i][1], c[i][2])]) :
                    c \in [1..n -> RelayTexts \X BOOLEAN]}
                  : n \in 1..MaxMembers }

\* One such update; after it the client delivers messages of an album to the
\* handler of single messages, which returns at once.
RelayInboxes ==
  {[r \in 1..NumRuns |-> IF r = 1 THEN u ELSE AlbumAndMember[1]] : u \in RelayUpdates}

-----------------------------------------------------------------------------
(* State                                                                    *)

VARIABLES
  inbox,        \* the updates the client delivers, one per run
  store,        \* the rows of forwarded_deals: [id, product_key, day_bucket]
  next_id,      \* the identity column's next value
  today,        \* date.today(), as an index of Calendar
  pc,           \* where each run is
  upd,          \* the update (event) each run handles
  product_key,  \* the run's product_key
  bucket,       \* the date on which the run called _db_try_insert_sync
  insert_exc,   \* the exception the table raised for the run's insert
  insert_res,   \* what the run's insert came to: none, inserted, duplicate, error
  row_id,       \* the run's row_id (None when the insert returned no data)
  attempt1,     \* how the first forward call ended: none, ok, flood, error
  attempt2,     \* how the forward call after the FloodWait sleep ended
  sends,        \* calls of client.send_message / client.send_file to dest_entity
  sent,         \* those calls, in order: what was sent, and how
  deletes,      \* calls of _db_delete_by_id_sync
  logs          \* the titles the run has logged

\* The state of main() and of the client's dispatch of updates.
VARIABLES
  SOURCE_CHANNELS,  \* parse_sources(SOURCE_CHANNELS_RAW): the configured sources
  main_pc,          \* where main() is
  dest_entity,      \* main's dest_entity (NoEntity before it is resolved)
  source_entities,  \* main's source_entities
  next_ch,          \* the position of "for ch in SOURCE_CHANNELS"
  handlers,         \* the handlers registered with client.on, with their chats
  main_logs,        \* the titles main() has logged, in order
  dispatched,       \* chats of the updates the client gave to a handler
  dropped           \* chats of the updates the client gave to no handler

main_vars == <<SOURCE_CHANNELS, main_pc, dest_entity, source_entities, next_ch,
               handlers, main_logs, dispatched, dropped>>

\* The state of the table and of the handler runs.
run_vars == <<inbox, store, next_id, today, pc, upd, product_key, bucket, insert_exc,
              insert_res, row_id, attempt1, attempt2, sends, sent, deletes, logs>>

vars == <<inbox, store, next_id, today, pc, upd, product_key, bucket, insert_exc,
          insert_res, row_id, attempt1, attempt2, sends, sent, deletes, logs, main_vars>>

NoUpdate == [handler |-> "none", chat_id |-> 0, messages |-> <<>>]

Terminal == {"ignored", "duplicate", "dberror", "empty", "forwarded", "failed", "aborted"}

\* The await points of a run that has started and not returned.
Suspended == {"keyed", "reserved", "sleeping", "empty_release", "rollback"}

-----------------------------------------------------------------------------
(* Key derivation                                                           *)

\* f"media_only_{event.chat_id}_{msg.id}"
media_only(chat_id, id) == <<"media_only_", ToString(chat_id), "_", ToString(id)>>

\* handler, lines 342-355.
handler_product_key(u) ==
  LET msg == u.messages[1]
      text == msg.message
      url_key == FirstProductKey(extract_urls(text))
      normalized == normalize_text(text)
  IN IF url_key # <<>> THEN url_key
     ELSE <<"text_">> \o text_hash(IF msg.media /\ normalized = <<>>
                                     THEN media_only(u.chat_id, msg.id)
                                     ELSE normalized)

\* " ".join([(m.message or "") for m in event.messages if m.message])
RECURSIVE JoinTexts(_)
JoinTexts(ms) ==
  IF ms = <<>> THEN <<>>
  ELSE IF Head(ms).message = <<>> THEN JoinTexts(Tail(ms))
  ELSE IF JoinTexts(Tail(ms)) = <<>> THEN Head(ms).message
  ELSE Head(ms).message \o <<" ">> \o JoinTexts(Tail(ms))

\* album_handler, lines 276-285.
album_product_key(u) ==
  LET all_text == JoinTexts(u.messages)
      url_key == FirstProductKey(extract_urls(all_text))
  IN IF url_key # <<>> THEN url_key
     ELSE <<"album_">> \o text_hash(normalize_text(all_text))

-----------------------------------------------------------------------------
(* The table forwarded_deals                                                *)

NoException == [type |-> "none", str |-> <<>>]
UniqueViolationError ==
  [type |-> "APIError",
   str |-> <<"23505", "duplicate key value violates unique constraint">>]
\* Failures of the insert that are no uniqueness violation: an APIError of
\* another code, and an exception of the HTTP layer.
InsertFailures ==
  { [type |-> "APIError", str |-> <<"42501", "permission denied for table">>],
    [type |-> "ConnectError", str |-> <<"connection timed out">>] }

\* Variant: the test looks for another SQLSTATE (23503, foreign_key_violation).
Contains23505_other_code(str) == \E i \in 1..Len(str) : str[i] = "23503"

\* "23505" in str(e)
Contains23505(str) == \E i \in 1..Len(str) : str[i] = "23505"

\* The uniqueness constraint over (product_key, day_bucket).
UniqueViolation(k, b) ==
  \E row \in store : row.product_key = k /\ row.day_bucket = b

\* Variant: the date is read once, when the process starts.
InsertPayload_start_date(k) == [product_key |-> k, day_bucket |-> Calendar[1]]

\* The row the insert sends: product_key and day_bucket = date.today().
InsertPayload(k) == [product_key |-> k, day_bucket |-> Calendar[today]]

\* supabase.table("forwarded_deals").insert(payload).execute(): it raises, or it
\* stores the row and answers with the row or with no data.
SupabaseInsert(payload) ==
  LET row == [id |-> next_id, product_key |-> payload.product_key,
              day_bucket |-> payload.day_bucket]
      same == [store |-> store, next_id |-> next_id, data |-> <<>>]
      done == [store |-> store \cup {row}, next_id |-> next_id + 1]
  IN {[raised |-> e] @@ same : e \in InsertFailures}
     \cup IF UniqueViolation(payload.product_key, payload.day_bucket)
            THEN {[raised |-> UniqueViolationError] @@ same}
            ELSE {[raised |-> NoException, data |-> d] @@ done : d \in {<<row>>, <<>>}}

\* Variant: the uniqueness violation is swallowed and reported as an insert.
db_try_insert_sync_swallow(k) ==
  { IF x.raised = NoException
      THEN [raised |-> NoException, inserted |-> TRUE,
            inserted_id |-> IF Len(x.data) > 0 THEN x.data[1].id ELSE None,
            exc |-> x.raised, store |-> x.store, next_id |-> x.next_id]
    ELSE IF x.raised.type = "APIError" /\ Contains23505(x.raised.str)
      THEN [raised |-> NoException, inserted |-> TRUE, inserted_id |-> None,
            exc |-> x.raised, store |-> x.store, next_id |-> x.next_id]
    ELSE [raised |-> x.raised, inserted |-> FALSE, inserted_id |-> None,
          exc |-> x.raised, store |-> x.store, next_id |-> x.next_id]
    : x \in SupabaseInsert(InsertPayload(k)) }

\* _db_try_insert_sync: (True, inserted_id), (False, None), or the exception
\* (raised); exc is what the table raised inside it.
db_try_insert_sync(k) ==
  { IF x.raised = NoException
      THEN [raised |-> NoException, inserted |-> TRUE,
            inserted_id |-> IF Len(x.data) > 0 THEN x.data[1].id ELSE None,
            exc |-> x.raised, store |-> x.store, next_id |-> x.next_id]
    ELSE IF x.raised.type = "APIError" /\ Contains23505(x.raised.str)
      THEN [raised |-> NoException, inserted |-> FALSE, inserted_id |-> None,
            exc |-> x.raised, store |-> x.store, next_id |-> x.next_id]
    ELSE [raised |-> x.raised, inserted |-> FALSE, inserted_id |-> None,
          exc |-> x.raised, store |-> x.store, next_id |-> x.next_id]
    : x \in SupabaseInsert(InsertPayload(k)) }

\* Variant: a delete that matches no row is reported as an error.
db_delete_by_id_sync_strict(id) ==
  IF \E row \in store : row.id = id
    THEN { [raised |-> FALSE, store |-> {row \in store : row.id # id}],
           [raised |-> TRUE, store |-> store],
           [raised |-> TRUE, store |-> {row \in store : row.id # id}] }
    ELSE { [raised |-> TRUE, store |-> store] }

\* _db_delete_by_id_sync: delete().eq("id", row_id).execute().  The request
\* deletes the rows with that id (none, when no row has it) and returns; or it
\* raises, before the table has carried it out or after (the answer is lost).
db_delete_by_id_sync(id) ==
  { [raised |-> FALSE, store |-> {row \in store : row.id # id}],
    [raised |-> TRUE, store |-> store],
    [raised |-> TRUE, store |-> {row \in store : row.id # id}] }

-----------------------------------------------------------------------------
(* Forwarding                                                               *)

\* What a call of client.send_message / client.send_file can come to: it
\* returns, raises FloodWaitError, or raises another error (RPCError, ...).
SendResults == {"ok", "flood", "error"}

\* text.strip() is not empty.
NonBlank(text) == Strip(text) # <<>>

\* No call of the client.
NoCall == [call |-> "none", files |-> <<>>, grouped |-> FALSE, text |-> <<>>]

\* client.send_message(dest_entity, text)
send_message(text) ==
  [call |-> "send_message", files |-> <<>>, grouped |-> FALSE, text |-> text]

\* client.send_file(dest_entity, file, caption=caption or None): file is the
\* media of one message (files has its id, grouped is FALSE) or a list of
\* media (grouped is TRUE); no caption is the empty text.
send_file(files, grouped, caption) ==
  [call |-> "send_file", files |-> files, grouped |-> grouped, text |-> caption]

\* forward_text: nothing is sent for a text that is blank.
forward_text(text) == IF NonBlank(text) THEN send_message(text) ELSE NoCall

\* forward_media
forward_media(msg) == send_file(<<msg.id>>, FALSE, msg.message)

\* handler, lines 383-393: the first forward of a message; for a message with
\* neither media nor text nothing is sent.
handler_first_call(msg) ==
  IF msg.media THEN forward_media(msg)
  ELSE IF NonBlank(msg.message) THEN forward_text(msg.message)
  ELSE NoCall

\* handler, lines 397-400: the forward after the FloodWait sleep.
handler_retry_call(msg) ==
  IF msg.media THEN forward_media(msg) ELSE forward_text(msg.message)

\* handler, lines 383-387: the message has something to send.
handler_has_relay(msg) == msg.media \/ NonBlank(msg.message)

\* forward_album: the first message text that is not empty (None: <<>>).
RECURSIVE album_caption(_)
album_caption(ms) ==
  IF ms = <<>> THEN <<>>
  ELSE IF Head(ms).message # <<>> THEN Head(ms).message
  ELSE album_caption(Tail(ms))

\* forward_album: the media of the messages that carry one.
album_files(ms) == SelectSeq(ms, LAMBDA m : m.media)

\* forward_album: the files of all messages in one call, with the caption; or
\* the caption as a text when there is no file; or nothing.
forward_album(ms) ==
  LET files == album_files(ms)
      caption == album_caption(ms)
  IN IF files # <<>>
       THEN send_file([i \in 1..Len(files) |-> files[i].id], TRUE, caption)
     ELSE IF caption # <<>> THEN forward_text(caption)
     ELSE NoCall

\* forward_album calls the client: send_file when there are files, else
\* forward_text(caption), which sends only a caption that is not blank.
album_has_relay(ms) ==
  album_files(ms) # <<>> \/ (album_caption(ms) # <<>> /\ NonBlank(album_caption(ms)))

-----------------------------------------------------------------------------
(* main(): start of the client, resolution of the peers, registration       *)

\* Longest list of configured sources.
MaxSources == 2

\* The sources a configuration can name.
SourceNames == {"@a", "@b"}

DEST_BOT == "@dest"

\* No entity (Python's None for dest_entity); entities are their chat ids.
NoEntity == 0

\* client.get_entity(peer), when it does not raise: the entity of the peer.
get_entity(peer) ==
  CASE peer = "@a" -> 1
    [] peer = "@b" -> 2
    [] peer = DEST_BOT -> 3

\* The chats whose updates reach the client: the chats of the sources and a
\* chat that no configuration names.
Chats == {get_entity(ch) : ch \in SourceNames} \cup {4}

\* The lists parse_sources can return: any names, in any order, repeated or not.
SourceLists == UNION {[1..n -> SourceNames] : n \in 0..MaxSources}

MainLog(title, about) ==
  main_logs' = Append(main_logs, [title |-> title, about |-> about])

\* Variant: the handlers are registered without the chats argument, so that
\* they match the updates of every chat.
HandlerChats_every_chat(entities) == Chats

\* events.Album(chats=source_entities), events.NewMessage(chats=source_entities):
\* the chats a handler is registered for.
HandlerChats(entities) == {entities[i] : i \in 1..Len(entities)}

\* The client gives an update of chat_id to the handlers registered for it.
Watched(chat_id) == \E h \in handlers : chat_id \in h.chats

\* main, line 236: client.start() returns or raises (and main ends with it).
main_start ==
  /\ main_pc = "start"
  /\ \/ /\ main_pc' = "resolve_dest"
        /\ MainLog("Userbot started", "")
     \/ /\ main_pc' = "raised"
        /\ UNCHANGED main_logs
  /\ UNCHANGED <<run_vars, SOURCE_CHANNELS, dest_entity, source_entities, next_ch, handlers,
                 dispatched, dropped>>

\* main, lines 239-245: the destination is resolved, or main returns.
main_resolve_dest ==
  /\ main_pc = "resolve_dest"
  /\ \/ /\ dest_entity' = get_entity(DEST_BOT)
        /\ MainLog("Destination resolved", DEST_BOT)
        /\ main_pc' = "resolve_sources"
     \/ /\ MainLog("DEST resolve failed", DEST_BOT)
        /\ main_pc' = "returned"
        /\ UNCHANGED dest_entity
  /\ UNCHANGED <<run_vars, SOURCE_CHANNELS, source_entities, next_ch, handlers, dispatched,
                 dropped>>

\* main, lines 248-255: one turn of the loop over SOURCE_CHANNELS.
main_resolve_source ==
  /\ main_pc = "resolve_sources"
  /\ next_ch <= Len(SOURCE_CHANNELS)
  /\ LET ch == SOURCE_CHANNELS[next_ch] IN
       \/ /\ source_entities' = Append(source_entities, get_entity(ch))
          /\ MainLog("Source resolved", ch)
       \/ /\ MainLog("Source access failed", ch)
          /\ UNCHANGED source_entities
  /\ next_ch' = next_ch + 1
  /\ UNCHANGED <<run_vars, SOURCE_CHANNELS, main_pc, dest_entity, handlers, dispatched, dropped>>

\* main, lines 257-415: after the loop main returns when no source was resolved;
\* otherwise it registers album_handler and handler for the resolved sources
\* and waits in run_until_disconnected.
main_register ==
  /\ main_pc = "resolve_sources"
  /\ next_ch > Len(SOURCE_CHANNELS)
  /\ IF source_entities = <<>>
       THEN /\ MainLog("No valid sources", "")
            /\ main_pc' = "returned"
            /\ UNCHANGED handlers
       ELSE /\ MainLog("Watching", "")
            /\ handlers' = {[name |-> n, chats |-> HandlerChats(source_entities)]
                              : n \in {"album_handler", "handler"}}
            /\ main_pc' = "watching"
  /\ UNCHANGED <<run_vars, SOURCE_CHANNELS, dest_entity, source_entities, next_ch, dispatched,
                 dropped>>

\* The client gives an update of chat_id to a handler registered for the chat.
Delivered(chat_id) ==
  /\ Watched(chat_id)
  /\ dispatched' = dispatched \cup {chat_id}
  /\ UNCHANGED <<SOURCE_CHANNELS, main_pc, dest_entity, source_entities, next_ch,
                 handlers, main_logs, dropped>>

\* While the client is connected an update of some chat arrives: the client
\* calls the handlers registered for the chat, or none.
client_update(chat_id) ==
  /\ main_pc \in {"resolve_dest", "resolve_sources", "watching"}
  /\ IF Watched(chat_id)
       THEN Delivered(chat_id) /\ UNCHANGED run_vars
       ELSE /\ dropped' = dropped \cup {chat_id}
            /\ UNCHANGED <<run_vars, SOURCE_CHANNELS, main_pc, dest_entity, source_entities,
                           next_ch, handlers, main_logs, dispatched>>

\* main, line 415: the client is disconnected and run_until_disconnected returns.
main_disconnected ==
  /\ main_pc = "watching"
  /\ main_pc' = "disconnected"
  /\ UNCHANGED <<run_vars, SOURCE_CHANNELS, dest_entity, source_entities, next_ch, handlers,
                 main_logs, dispatched, dropped>>

-----------------------------------------------------------------------------
(* Steps of a run                                                           *)

Log(r, title) == logs' = [logs EXCEPT ![r] = @ \cup {title}]

\* Variant: the client is created with sequential_updates=True, so that an
\* update is given to its handler only after the handler of the update before
\* it has returned.
MayStart_sequential_updates(r) ==
  pc[r] = "idle" /\ \A q \in Runs : q < r => pc[q] \in Terminal

\* Updates arrive one after the other: run r starts when the runs before it have.
MayStart(r) == pc[r] = "idle" /\ \A q \in Runs : q < r => pc[q] # "idle"

\* Variant: the handler does not look at grouped_id.
handler_receive_no_group_check(r) ==
  LET u == inbox[r] IN
    /\ MayStart(r)
    /\ Delivered(u.chat_id)
    /\ u.handler = "handler"
    /\ upd' = [upd EXCEPT ![r] = u]
    /\ pc' = [pc EXCEPT ![r] = "keyed"]
    /\ product_key' = [product_key EXCEPT ![r] = handler_product_key(u)]
    /\ Log(r, "RECEIVED")
    /\ UNCHANGED <<inbox, store, next_id, today, bucket, insert_exc, insert_res,
                   row_id, attempt1, attempt2, sends, sent, deletes>>

\* handler, lines 333-362: return for a message of an album, else derive the key.
handler_receive(r) ==
  LET u == inbox[r] IN
    /\ MayStart(r)
    /\ Delivered(u.chat_id)
    /\ u.handler = "handler"
    /\ upd' = [upd EXCEPT ![r] = u]
    /\ IF u.messages[1].grouped_id # None
         THEN /\ pc' = [pc EXCEPT ![r] = "ignored"]
              /\ UNCHANGED <<product_key, logs>>
         ELSE /\ pc' = [pc EXCEPT ![r] = "keyed"]
              /\ product_key' = [product_key EXCEPT ![r] = handler_product_key(u)]
              /\ Log(r, "RECEIVED")
    /\ UNCHANGED <<inbox, store, next_id, today, bucket, insert_exc, insert_res, row_id, attempt1,
                   attempt2, sends, sent, deletes>>

\* album_handler, lines 269-292.
album_receive(r) ==
  LET u == inbox[r] IN
    /\ MayStart(r)
    /\ Delivered(u.chat_id)
    /\ u.handler = "album_handler"
    /\ upd' = [upd EXCEPT ![r] = u]
    /\ pc' = [pc EXCEPT ![r] = "keyed"]
    /\ product_key' = [product_key EXCEPT ![r] = album_product_key(u)]
    /\ Log(r, "RECEIVED")
    /\ UNCHANGED <<inbox, store, next_id, today, bucket, insert_exc, insert_res, row_id, attempt1,
                   attempt2, sends, sent, deletes>>

\* Variant: the handlers fail open, a run whose insert raised goes on to forward.
InsertFirst_fail_open(r) ==
  /\ pc[r] = "keyed"
  /\ \E x \in db_try_insert_sync(product_key[r]) :
       /\ store' = x.store
       /\ next_id' = x.next_id
       /\ bucket' = [bucket EXCEPT ![r] = Calendar[today]]
       /\ insert_exc' = [insert_exc EXCEPT ![r] = x.exc]
       /\ IF x.raised # NoException
            THEN /\ insert_res' = [insert_res EXCEPT ![r] = "error"]
                 /\ pc' = [pc EXCEPT ![r] = "reserved"]
                 /\ Log(r, "DB insert error")
                 /\ UNCHANGED row_id
          ELSE IF ~x.inserted
            THEN /\ insert_res' = [insert_res EXCEPT ![r] = "duplicate"]
                 /\ pc' = [pc EXCEPT ![r] = "duplicate"]
                 /\ Log(r, "Duplicate skipped")
                 /\ UNCHANGED row_id
          ELSE /\ insert_res' = [insert_res EXCEPT ![r] = "inserted"]
               /\ pc' = [pc EXCEPT ![r] = "reserved"]
               /\ row_id' = [row_id EXCEPT ![r] = x.inserted_id]
               /\ UNCHANGED logs
  /\ UNCHANGED <<main_vars, inbox, today, upd, product_key, attempt1, attempt2, sends, sent, deletes>>

\* The insert-first step of both handlers (lines 294-308 and 364-378).
InsertFirst(r) ==
  /\ pc[r] = "keyed"
  /\ \E x \in db_try_insert_sync(product_key[r]) :
       /\ store' = x.store
       /\ next_id' = x.next_id
       /\ bucket' = [bucket EXCEPT ![r] = Calendar[today]]
       /\ insert_exc' = [insert_exc EXCEPT ![r] = x.exc]
       /\ IF x.raised # NoException
            THEN /\ insert_res' = [insert_res EXCEPT ![r] = "error"]
                 /\ pc' = [pc EXCEPT ![r] = "dberror"]
                 /\ Log(r, "DB insert error")
                 /\ UNCHANGED row_id
          ELSE IF ~x.inserted
            THEN /\ insert_res' = [insert_res EXCEPT ![r] = "duplicate"]
                 /\ pc' = [pc EXCEPT ![r] = "duplicate"]
                 /\ Log(r, "Duplicate skipped")
                 /\ UNCHANGED row_id
          ELSE /\ insert_res' = [insert_res EXCEPT ![r] = "inserted"]
               /\ pc' = [pc EXCEPT ![r] = "reserved"]
               /\ row_id' = [row_id EXCEPT ![r] = x.inserted_id]
               /\ UNCHANGED logs
  /\ UNCHANGED <<main_vars, inbox, today, upd, product_key, attempt1, attempt2, sends, sent, deletes>>

handler_insert(r) == upd[r].handler = "handler" /\ InsertFirst(r)

album_insert(r) == upd[r].handler = "album_handler" /\ InsertFirst(r)

\* Variant: every failure of the first attempt is retried.
Retries_any_failure(res) == res \in {"flood", "error"}

\* After the first attempt, the retry is made for this result only
\* (except FloodWaitError, lines 314 and 395).
Retries(res) == res = "flood"

\* The except block of the forward (lines 321-329 and 405-413) is entered: with
\* a row id the delete is awaited next, without one "Forward failed" is logged.
EnterRollback(r) ==
  IF row_id[r] # None
    THEN /\ pc' = [pc EXCEPT ![r] = "rollback"]
         /\ UNCHANGED logs
    ELSE /\ pc' = [pc EXCEPT ![r] = "failed"]
         /\ Log(r, "Forward failed")

\* Variant: the delete is made in a finally block, after a successful forward too.
AfterForward_release_always(r, res, first) ==
  IF res = "ok"
    THEN /\ pc' = [pc EXCEPT ![r] = IF row_id[r] # None THEN "rollback"
                                                      ELSE "forwarded"]
         /\ Log(r, "FORWARDED")
  ELSE IF first /\ Retries(res)
    THEN /\ pc' = [pc EXCEPT ![r] = "sleeping"]
         /\ Log(r, "FloodWait")
  ELSE EnterRollback(r)

\* The outcome of a forward call that ended as res; first: it is the first one.
AfterForward(r, res, first) ==
  IF res = "ok"
    THEN /\ pc' = [pc EXCEPT ![r] = "forwarded"]
         /\ Log(r, "FORWARDED")
  ELSE IF first /\ Retries(res)
    THEN /\ pc' = [pc EXCEPT ![r] = "sleeping"]
         /\ Log(r, "FloodWait")
  ELSE EnterRollback(r)

\* handler, lines 381-393 and 403: the first forward, or the empty message.
handler_forward(r) ==
  /\ upd[r].handler = "handler"
  /\ pc[r] = "reserved"
  /\ IF handler_has_relay(upd[r].messages[1])
       THEN \E res \in SendResults :
              /\ sends' = [sends EXCEPT ![r] = @ + 1]
              /\ sent' = [sent EXCEPT ![r] =
                            Append(@, handler_first_call(upd[r].messages[1]))]
              /\ attempt1' = [attempt1 EXCEPT ![r] = res]
              /\ AfterForward(r, res, TRUE)
       ELSE /\ Log(r, "Empty message skipped")
            /\ pc' = [pc EXCEPT ![r] = IF row_id[r] # None THEN "empty_release"
                                                         ELSE "empty"]
            /\ UNCHANGED <<sends, sent, attempt1>>
  /\ UNCHANGED <<main_vars, inbox, store, next_id, today, upd, product_key, bucket, insert_exc, insert_res,
                 row_id, attempt2, deletes>>

\* handler, lines 391-393: the delete of the empty message's row; an exception
\* of it is caught by the except block of line 405.
handler_empty_release(r) ==
  /\ upd[r].handler = "handler"
  /\ pc[r] = "empty_release"
  /\ deletes' = [deletes EXCEPT ![r] = @ + 1]
  /\ \E x \in db_delete_by_id_sync(row_id[r]) :
       /\ store' = x.store
       /\ IF x.raised
            THEN EnterRollback(r)
            ELSE /\ pc' = [pc EXCEPT ![r] = "empty"]
                 /\ UNCHANGED logs
  /\ UNCHANGED <<main_vars, inbox, next_id, today, upd, product_key, bucket, insert_exc, insert_res, row_id,
                 attempt1, attempt2, sends, sent>>

\* handler, lines 395-403: the forward after safe_sleep.
handler_retry(r) ==
  /\ upd[r].handler = "handler"
  /\ pc[r] = "sleeping"
  /\ \E res \in SendResults :
       /\ sends' = [sends EXCEPT ![r] =
                      IF handler_has_relay(upd[r].messages[1]) THEN @ + 1 ELSE @]
       /\ sent' = [sent EXCEPT ![r] =
                     IF handler_retry_call(upd[r].messages[1]) # NoCall
                       THEN Append(@, handler_retry_call(upd[r].messages[1]))
                       ELSE @]
       /\ attempt2' = [attempt2 EXCEPT ![r] = res]
       /\ AfterForward(r, res, FALSE)
  /\ UNCHANGED <<main_vars, inbox, store, next_id, today, upd, product_key, bucket, insert_exc, insert_res,
                 row_id, attempt1, deletes>>

\* Variant: the except block deletes the rows of the run's key and day, not the
\* row of the id its insert returned.
Rollback_by_key(r) ==
  /\ pc[r] = "rollback"
  /\ deletes' = [deletes EXCEPT ![r] = @ + 1]
  /\ \E raised \in BOOLEAN :
       /\ store' = {row \in store : ~(/\ row.product_key = product_key[r]
                                      /\ row.day_bucket = bucket[r])}
       /\ logs' = [logs EXCEPT ![r] =
                     @ \cup (IF raised THEN {"Rollback failed"} ELSE {})
                       \cup {"Forward failed"}]
  /\ pc' = [pc EXCEPT ![r] = "failed"]
  /\ UNCHANGED <<main_vars, inbox, next_id, today, upd, product_key, bucket, insert_exc,
                 insert_res, row_id, attempt1, attempt2, sends, sent>>

\* Variant: the delete of the except block is not guarded by a try of its own,
\* so its exception leaves the handler.
Rollback_unguarded(r) ==
  /\ pc[r] = "rollback"
  /\ deletes' = [deletes EXCEPT ![r] = @ + 1]
  /\ \E x \in db_delete_by_id_sync(row_id[r]) :
       /\ store' = x.store
       /\ IF x.raised
            THEN /\ pc' = [pc EXCEPT ![r] = "aborted"]
                 /\ UNCHANGED logs
            ELSE /\ pc' = [pc EXCEPT ![r] = "failed"]
                 /\ Log(r, "Forward failed")
  /\ UNCHANGED <<main_vars, inbox, next_id, today, upd, product_key, bucket, insert_exc,
                 insert_res, row_id, attempt1, attempt2, sends, sent>>

\* The rollback of both handlers (lines 321-329 and 405-413).
Rollback(r) ==
  /\ pc[r] = "rollback"
  /\ deletes' = [deletes EXCEPT ![r] = @ + 1]
  /\ \E x \in db_delete_by_id_sync(row_id[r]) :
       /\ store' = x.store
       /\ logs' = [logs EXCEPT ![r] =
                     @ \cup (IF x.raised THEN {"Rollback failed"} ELSE {})
                       \cup {"Forward failed"}]
  /\ pc' = [pc EXCEPT ![r] = "failed"]
  /\ UNCHANGED <<main_vars, inbox, next_id, today, upd, product_key, bucket, insert_exc, insert_res, row_id,
                 attempt1, attempt2, sends, sent>>

handler_rollback(r) == upd[r].handler = "handler" /\ Rollback(r)

album_rollback(r) == upd[r].handler = "album_handler" /\ Rollback(r)

\* album_handler, lines 311-319: forward_album, which sends nothing and returns
\* when the album has neither files nor a caption to send.
album_forward(r) ==
  /\ upd[r].handler = "album_handler"
  /\ pc[r] = "reserved"
  /\ IF album_has_relay(upd[r].messages)
       THEN \E res \in SendResults :
              /\ sends' = [sends EXCEPT ![r] = @ + 1]
              /\ sent' = [sent EXCEPT ![r] = Append(@, forward_album(upd[r].messages))]
              /\ attempt1' = [attempt1 EXCEPT ![r] = res]
              /\ AfterForward(r, res, TRUE)
       ELSE /\ attempt1' = [attempt1 EXCEPT ![r] = "ok"]
            /\ AfterForward(r, "ok", TRUE)
            /\ UNCHANGED <<sends, sent>>
  /\ UNCHANGED <<main_vars, inbox, store, next_id, today, upd, product_key, bucket, insert_exc, insert_res,
                 row_id, attempt2, deletes>>

\* album_handler, lines 314-319: forward_album after safe_sleep.
album_retry(r) ==
  /\ upd[r].handler = "album_handler"
  /\ pc[r] = "sleeping"
  /\ \E res \in SendResults :
       /\ sends' = [sends EXCEPT ![r] =
                      IF album_has_relay(upd[r].messages) THEN @ + 1 ELSE @]
       /\ sent' = [sent EXCEPT ![r] =
                     IF forward_album(upd[r].messages) # NoCall
                       THEN Append(@, forward_album(upd[r].messages))
                       ELSE @]
       /\ attempt2' = [attempt2 EXCEPT ![r] = res]
       /\ AfterForward(r, res, FALSE)
  /\ UNCHANGED <<main_vars, inbox, store, next_id, today, upd, product_key, bucket, insert_exc, insert_res,
                 row_id, attempt1, deletes>>

\* The task of a run is cancelled, or the process is stopped, at an await
\* point: asyncio.CancelledError is no Exception, so no except block runs.
Abort(r) ==
  /\ pc[r] \in Suspended
  /\ pc' = [pc EXCEPT ![r] = "aborted"]
  /\ UNCHANGED <<main_vars, inbox, store, next_id, today, upd, product_key, bucket, insert_exc, insert_res,
                 row_id, attempt1, attempt2, sends, sent, deletes, logs>>

\* Midnight: date.today() moves on.  Only an insert reads the date, so the day
\* changes while some run is about to insert.
Tick ==
  /\ today < Len(Calendar)
  /\ \E r \in Runs : pc[r] = "keyed"
  /\ today' = today + 1
  /\ UNCHANGED <<main_vars, inbox, store, next_id, pc, upd, product_key, bucket, insert_exc, insert_res,
                 row_id, attempt1, attempt2, sends, sent, deletes, logs>>

\* No update has arrived and the table is empty.
RunsInit ==
  /\ store = {}
  /\ next_id = 1
  /\ today = 1
  /\ pc = [r \in Runs |-> "idle"]
  /\ upd = [r \in Runs |-> NoUpdate]
  /\ product_key = [r \in Runs |-> <<>>]
  /\ bucket = [r \in Runs |-> "none"]
  /\ insert_exc = [r \in Runs |-> NoException]
  /\ insert_res = [r \in Runs |-> "none"]
  /\ row_id = [r \in Runs |-> None]
  /\ attempt1 = [r \in Runs |-> "none"]
  /\ attempt2 = [r \in Runs |-> "none"]
  /\ sends = [r \in Runs |-> 0]
  /\ sent = [r \in Runs |-> <<>>]
  /\ deletes = [r \in Runs |-> 0]
  /\ logs = [r \in Runs |-> {}]

\* main() has resolved the destination and both of two sources and waits in
\* run_until_disconnected.
MainWatching ==
  /\ SOURCE_CHANNELS = <<"@a", "@b">>
  /\ main_pc = "watching"
  /\ dest_entity = get_entity(DEST_BOT)
  /\ source_entities = <<get_entity("@a"), get_entity("@b")>>
  /\ next_ch = 3
  /\ handlers = {[name |-> n, chats |-> HandlerChats(source_entities)]
                   : n \in {"album_handler", "handler"}}
  /\ main_logs = << [title |-> "Userbot started", about |-> ""],
                    [title |-> "Destination resolved", about |-> DEST_BOT],
                    [title |-> "Source resolved", about |-> "@a"],
                    [title |-> "Source resolved", about |-> "@b"],
                    [title |-> "Watching", about |-> ""] >>
  /\ dispatched = {}
  /\ dropped = {}

\* A step of run r by itself: any step but the cancellation of its task.
RunStep(r) ==
  \/ handler_receive(r)
  \/ album_receive(r)
  \/ handler_insert(r)
  \/ album_insert(r)
  \/ handler_forward(r)
  \/ handler_empty_release(r)
  \/ handler_retry(r)
  \/ handler_rollback(r)
  \/ album_forward(r)
  \/ album_retry(r)
  \/ album_rollback(r)

Init ==
  /\ inbox \in Inboxes
  /\ RunsInit
  /\ MainWatching

Next ==
  \/ \E r \in Runs : handler_receive(r)
  \/ \E r \in Runs : album_receive(r)
  \/ \E r \in Runs : handler_insert(r)
  \/ \E r \in Runs : album_insert(r)
  \/ \E r \in Runs : handler_forward(r)
  \/ \E r \in Runs : handler_empty_release(r)
  \/ \E r \in Runs : handler_retry(r)
  \/ \E r \in Runs : handler_rollback(r)
  \/ \E r \in Runs : album_forward(r)
  \/ \E r \in Runs : album_retry(r)
  \/ \E r \in Runs : album_rollback(r)
  \/ \E r \in Runs : Abort(r)
  \/ Tick

Spec == Init /\ [][Next]_vars

\* The event loop runs every task that is ready, and every await of a handler
\* ends (the sleep is over, the thread of the table call or the request of the
\* client returns or raises): each run but the first takes its next step in
\* the end.  Nothing is assumed of the first run, which may stay suspended for
\* as long as it likes.
FairSpec == Init /\ [][Next]_vars /\ \A r \in Runs \ {1} : WF_vars(RunStep(r))

\* The handlers on one update of any content.
RelayInit ==
  /\ inbox \in RelayInboxes
  /\ RunsInit
  /\ MainWatching

RelaySpec == RelayInit /\ [][Next]_vars

\* The handlers on posts about products.
ProductInit ==
  /\ inbox \in ProductInboxes
  /\ RunsInit
  /\ MainWatching

ProductSpec == ProductInit /\ [][Next]_vars

\* The process from its start: main() with any list of configured sources,
\* and the updates that arrive while the client is connected.
StartupInit ==
  /\ inbox = [r \in Runs |-> NoUpdate]
  /\ RunsInit
  /\ SOURCE_CHANNELS \in SourceLists
  /\ main_pc = "start"
  /\ dest_entity = NoEntity
  /\ source_entities = <<>>
  /\ next_ch = 1
  /\ handlers = {}
  /\ main_logs = <<>>
  /\ dispatched = {}
  /\ dropped = {}

StartupNext ==
  \/ main_start
  \/ main_resolve_dest
  \/ main_resolve_source
  \/ main_register
  \/ \E chat_id \in Chats : client_update(chat_id)
  \/ main_disconnected

StartupSpec == StartupInit /\ [][StartupNext]_vars

-----------------------------------------------------------------------------
(* Properties                                                               *)

\* The run's insert stored a row (RESERVED).
Reserved(r) == insert_res[r] = "inserted"

\* The run logged a successful relay.
Forwarded(r) == "FORWARDED" \in logs[r]

\* The run returned by itself (it was not aborted).
Completed(r) == pc[r] \in Terminal \ {"aborted"}

\* Both runs called the insert, with the same key and on the same day.
SameSlot(r, q) ==
  /\ r # q
  /\ bucket[r] # "none"
  /\ bucket[r] = bucket[q]
  /\ product_key[r] = product_key[q]

\* The table holds a row for the run's key and day.
SlotTaken(r) ==
  \E row \in store : row.product_key = product_key[r] /\ row.day_bucket = bucket[r]

\* The relay of the run failed: its first attempt with an error that is no
\* FloodWait, or its retry in any way.
RelayFailed(r) == attempt1[r] = "error" \/ attempt2[r] \in {"flood", "error"}

\* C1: among the runs (of either handler) that insert the same key on the same
\* day, at most one logs FORWARDED, under every interleaving.
C1_AtMostOneForwarded ==
  \A r, q \in Runs : SameSlot(r, q) => ~(Forwarded(r) /\ Forwarded(q))

\* A message and an album with the same key on the same day: one is forwarded,
\* the other is skipped as a duplicate.
C1_Witness ==
  \E r, q \in Runs :
    /\ SameSlot(r, q)
    /\ upd[r].handler # upd[q].handler
    /\ Forwarded(r)
    /\ pc[q] = "duplicate"

\* C2 as stated: when one of two runs with the same key and day ends in
\* FORWARDED, the other ends in DUPLICATE.  Stated for the runs that returned
\* by themselves and whose insert did not raise.
C2_OtherIsDuplicate ==
  \A r, q \in Runs :
    (SameSlot(r, q) /\ Forwarded(r) /\ Completed(q) /\ insert_res[q] # "error")
      => pc[q] = "duplicate"

\* C2 amended: when one of two runs with the same key and day ends in
\* FORWARDED, the other does not: it ends in DUPLICATE, or in the store-error
\* state when its insert raised, or it had reserved first, knew its row id, and
\* its own row is deleted again (it ended in RelayFailed or EMPTY, or was
\* cancelled after that delete).
C2_OtherIsNotForwarded ==
  \A r, q \in Runs :
    (SameSlot(r, q) /\ Forwarded(r) /\ pc[q] \in Terminal) =>
      \/ pc[q] = "duplicate"
      \/ pc[q] = "dberror" /\ insert_res[q] = "error"
      \/ /\ pc[q] \in {"failed", "empty", "aborted"}
         /\ Reserved(q)
         /\ row_id[q] # None
         /\ deletes[q] >= 1
         /\ \A row \in store : row.id # row_id[q]
         /\ row_id[r] # None => row_id[q] < row_id[r]

\* A run reserved, its relay failed and it rolled back; the other run then
\* reserved the same key and day and was forwarded.
C2_Witness ==
  \E r, q \in Runs :
    /\ SameSlot(r, q)
    /\ Forwarded(r)
    /\ pc[q] = "failed"
    /\ RelayFailed(q)

\* C3: when a run whose relay failed after its reservation terminates, the
\* table holds no row for its key and day, unless "Rollback failed" was logged;
\* for every row id the insert can return, None included.
C3_RelayFailureReleases ==
  [][\A r \in Runs :
       (/\ pc[r] # "failed"
        /\ pc'[r] = "failed"
        /\ Reserved(r)'
        /\ RelayFailed(r)'
        /\ "Rollback failed" \notin logs'[r])
         => ~SlotTaken(r)']_vars

\* C4: a run that reserved and returned without FORWARDED has called the
\* delete at least once, and a run without a reservation never calls it.
C4_ReleaseAlwaysAttempted ==
  \A r \in Runs :
    /\ (Reserved(r) /\ Completed(r) /\ ~Forwarded(r)) => deletes[r] >= 1
    /\ ~Reserved(r) => deletes[r] = 0

\* C5: a run sends at most twice; the second attempt is made only after the
\* first ended in FloodWait, and then exactly once; a failure of the second
\* attempt ends the run in "Forward failed" without FORWARDED, and another
\* failure of the first attempt is not retried.
C5_RetryOnceAfterFloodWait ==
  \A r \in Runs :
    /\ sends[r] <= 2
    /\ attempt2[r] # "none" => (attempt1[r] = "flood" /\ "FloodWait" \in logs[r])
    /\ sends[r] = 2 => attempt2[r] # "none"
    /\ attempt1[r] \in {"ok", "error"} => sends[r] <= 1
    /\ (Completed(r) /\ attempt1[r] = "flood") => (sends[r] = 2 /\ attempt2[r] # "none")
    /\ (Completed(r) /\ attempt2[r] \in {"flood", "error"})
         => (pc[r] = "failed" /\ "Forward failed" \in logs[r] /\ ~Forwarded(r))
    /\ (Completed(r) /\ attempt1[r] = "error")
         => (pc[r] = "failed" /\ attempt2[r] = "none" /\ ~Forwarded(r))

\* A run whose first attempt and whose retry were both rate-limited.
C5_Witness ==
  \E r \in Runs :
    /\ attempt1[r] = "flood"
    /\ attempt2[r] = "flood"
    /\ sends[r] = 2
    /\ pc[r] = "failed"

\* The update has neither text (it is empty or blank) nor media.
EmptyUpdate(u) ==
  /\ u.messages # <<>>
  /\ \A i \in 1..Len(u.messages) :
       ~u.messages[i].media /\ ~NonBlank(u.messages[i].message)

\* C6: a run for an update without text and media never logs FORWARDED, and
\* when it returns after a reservation it is in EMPTY and the table holds no
\* row for its key and day.
C6_EmptyReleasedNeverForwarded ==
  [][\A r \in Runs :
       EmptyUpdate(upd'[r]) =>
         /\ ~Forwarded(r)'
         /\ (pc[r] \notin Terminal /\ Completed(r)' /\ Reserved(r)')
              => (pc'[r] = "empty" /\ ~SlotTaken(r)')]_vars

\* The update has media and no text at all.
MediaOnlyUpdate(u) ==
  /\ \E i \in 1..Len(u.messages) : u.messages[i].media
  /\ \A i \in 1..Len(u.messages) : u.messages[i].message = <<>>

\* C7: media-only updates with different (chat id, message id) have different
\* keys, messages and albums alike, so on one day neither is skipped as the
\* duplicate of the other.
C7_MediaOnlyKeysDistinct ==
  \A r, q \in Runs :
    (/\ r # q
     /\ pc[r] \notin {"idle", "ignored"}
     /\ pc[q] \notin {"idle", "ignored"}
     /\ MediaOnlyUpdate(upd[r])
     /\ MediaOnlyUpdate(upd[q])
     /\ <<upd[r].chat_id, upd[r].messages[1].id>>
          # <<upd[q].chat_id, upd[q].messages[1].id>>)
      => /\ product_key[r] # product_key[q]
         /\ ~(SameSlot(r, q) /\ Reserved(r) /\ pc[q] = "duplicate")

C9_DuplicateOnlyWithinBucket ==
  \A r \in Runs :
    pc[r] = "duplicate" =>
      \E q \in Runs : SameSlot(r, q) /\ Reserved(q)

\* Two runs with the same key, on different days, are both forwarded.
C9_Witness ==
  \E r, q \in Runs :
    /\ r # q
    /\ product_key[r] = product_key[q]
    /\ bucket[r] # "none" /\ bucket[q] # "none"
    /\ bucket[r] # bucket[q]
    /\ Forwarded(r)
    /\ Forwarded(q)

\* C10: the handler of single messages neither reserves nor sends for a message
\* with a group id; a run of the album handler calls the insert once, with one
\* key for the group, and sends at most twice (the relay and its one retry).
C10_OneRunPerAlbum ==
  /\ [](\A r \in Runs :
          /\ (upd[r].handler = "handler" /\ upd[r].messages[1].grouped_id # None)
               => /\ pc[r] = "ignored"
                  /\ insert_res[r] = "none"
                  /\ bucket[r] = "none"
                  /\ sends[r] = 0
                  /\ deletes[r] = 0
                  /\ logs[r] = {}
          /\ upd[r].handler = "album_handler"
               => /\ sends[r] <= 2
                  /\ product_key[r] = album_product_key(inbox[r])
                  /\ (pc[r] \notin {"keyed", "aborted"}) => insert_res[r] # "none"
                  /\ \A row \in store : row.id = row_id[r]
                                          => row.product_key = product_key[r])
  /\ [][\A r \in Runs :
          insert_res'[r] # insert_res[r] =>
            (pc[r] = "keyed" /\ insert_res[r] = "none")]_vars

\* An album of two messages was forwarded with one send, and the run for one of
\* its messages returned without a reservation.
C10_Witness ==
  \E r, q \in Runs :
    /\ upd[r].handler = "handler"
    /\ upd[r].messages[1].grouped_id # None
    /\ pc[r] = "ignored"
    /\ upd[q].handler = "album_handler"
    /\ Len(upd[q].messages) = 2
    /\ upd[q].messages[1].grouped_id = upd[r].messages[1].grouped_id
    /\ Forwarded(q)
    /\ sends[q] = 1

\* main() has logged that the destination was resolved.
DestinationResolved ==
  \E i \in 1..Len(main_logs) : main_logs[i].title = "Destination resolved"

\* The chats of the configured sources main() has logged as resolved.
ResolvedSources ==
  {get_entity(main_logs[i].about) :
     i \in {j \in 1..Len(main_logs) : main_logs[j].title = "Source resolved"}}

\* main() is past the resolution of its peers.
StartupOver == main_pc \in {"raised", "returned", "watching", "disconnected"}

\* C11: main() registers its handlers and waits for updates exactly when the
\* destination and at least one configured source were resolved; otherwise it
\* ends and no update is ever given to a handler; and the handlers it registers
\* are called for the updates of the resolved sources and of no other chat.
C11_StartsIffResolved ==
  /\ [](/\ handlers # {} <=> main_pc \in {"watching", "disconnected"}
        /\ StartupOver =>
             (handlers # {} <=> (DestinationResolved /\ ResolvedSources # {}))
        /\ handlers # {} =>
             /\ {h.name : h \in handlers} = {"album_handler", "handler"}
             /\ \A h \in handlers : h.chats = ResolvedSources
             /\ dest_entity = get_entity(DEST_BOT)
        /\ handlers = {} => dispatched = {}
        /\ dispatched \subseteq ResolvedSources)
  /\ [][\A chat_id \in Chats :
          /\ chat_id \in dispatched' \ dispatched =>
               (main_pc = "watching" /\ chat_id \in ResolvedSources)
          /\ chat_id \in dropped' \ dropped =>
               ~(main_pc = "watching" /\ chat_id \in ResolvedSources)]_vars

\* Of two configured sources only the second was resolved: main() watches, an
\* update of the second source reached a handler, one of the first did not.
C11_Witness ==
  /\ SOURCE_CHANNELS = <<"@a", "@b">>
  /\ main_pc = "watching"
  /\ source_entities = <<get_entity("@b")>>
  /\ dispatched = {get_entity("@b")}
  /\ get_entity("@a") \in dropped

\* The table holds the row the run's insert returned the id of, under the
\* run's key and day.
OwnRowPresent(r) ==
  \E row \in store :
    /\ row.id = row_id[r]
    /\ row.product_key = product_key[r]
    /\ row.day_bucket = bucket[r]

\* C12: a run whose forward returned (at the first attempt or after the
\* FloodWait sleep) has logged FORWARDED and has ended; such a run never calls
\* the delete, and in every state from then on the table holds the row of its
\* key and day, whatever the other runs do.
C12_ForwardedRowStays ==
  \A r \in Runs :
    /\ (attempt1[r] = "ok" \/ attempt2[r] = "ok")
         => (Forwarded(r) /\ pc[r] = "forwarded")
    /\ Forwarded(r) =>
         /\ Reserved(r)
         /\ deletes[r] = 0
         /\ SlotTaken(r)
         /\ row_id[r] # None => OwnRowPresent(r)

\* A run was forwarded after the FloodWait sleep; a run that inserted after it
\* failed and deleted its own row, and the row of the forwarded run is there.
C12_Witness ==
  \E r, q \in Runs :
    /\ r # q
    /\ attempt2[r] = "ok"
    /\ Forwarded(r)
    /\ row_id[r] # None
    /\ row_id[q] > row_id[r]
    /\ pc[q] = "failed"
    /\ deletes[q] = 1
    /\ OwnRowPresent(r)

\* The log titles that report how a run ended: Forwarded, DuplicateSkipped,
\* EmptySkipped, ReservationError, RelayFailed.
Outcomes ==
  {"FORWARDED", "Duplicate skipped", "Empty message skipped", "DB insert error",
   "Forward failed"}

\* C13: a run logs at most one outcome, and exactly one when it has returned
\* (a run that returned at once for a message of an album logs none); a run
\* that logged "Empty message skipped" does not log "Forward failed" and calls
\* the delete at most once.
C13_ExactlyOneOutcome ==
  \A r \in Runs :
    /\ Cardinality(logs[r] \cap Outcomes) <= 1
    /\ (Completed(r) /\ pc[r] # "ignored") => Cardinality(logs[r] \cap Outcomes) = 1
    /\ "Empty message skipped" \in logs[r] =>
         ("Forward failed" \notin logs[r] /\ deletes[r] <= 1)

\* Run q has returned, or it can take its next step now, or its update has not
\* arrived yet because an earlier update has not.
CanProceed(q) ==
  \/ pc[q] \in Terminal
  \/ ENABLED RunStep(q)
  \/ \E p \in Runs : p < q /\ pc[p] = "idle"

\* C14: when the delete of the except block fails (the run's row is still in
\* the table after it, or "Rollback failed" is logged), the run logs "Rollback
\* failed" and "Forward failed" and returns in the relay-failed state; the
\* step changes nothing of any other run and removes no row but, at most, the
\* run's own; and every other run can go on.
C14_RollbackFailureIsLogged ==
  /\ [](\A r \in Runs :
          "Rollback failed" \in logs[r] =>
            /\ pc[r] = "failed"
            /\ "Forward failed" \in logs[r]
            /\ ~Forwarded(r)
            /\ \A q \in Runs \ {r} : CanProceed(q))
  /\ [][\A r \in Runs :
          (/\ pc[r] = "rollback"
           /\ deletes'[r] # deletes[r]
           /\ OwnRowPresent(r)' \/ "Rollback failed" \in logs'[r])
            => /\ pc'[r] = "failed"
               /\ {"Rollback failed", "Forward failed"} \subseteq logs'[r]
               /\ store' \subseteq store
               /\ \A row \in store \ store' : row.id = row_id[r]
               /\ \A q \in Runs \ {r} :
                    /\ pc'[q] = pc[q]
                    /\ logs'[q] = logs[q]
                    /\ sends'[q] = sends[q]
                    /\ deletes'[q] = deletes[q]]_vars

\* The relay of a run failed and so did its rollback: its row stays in the
\* table, and a later run with the same key on that day is skipped as a
\* duplicate.
C14_Witness ==
  \E r, q \in Runs :
    /\ SameSlot(r, q)
    /\ RelayFailed(r)
    /\ "Rollback failed" \in logs[r]
    /\ pc[r] = "failed"
    /\ OwnRowPresent(r)
    /\ pc[q] = "duplicate"

\* No row of the table has this id: it was deleted, or never given out.
Released(id) == \A row \in store : row.id # id

\* C15: a delete for an id that no row has (deleted before, or never given
\* out) leaves the table as it is whatever its outcome, and returns without an
\* exception when it reaches the table; after a delete that returned no row has
\* the id, so a second delete changes nothing; and a run that calls the delete
\* for its id again after the row is gone leaves the table unchanged and
\* returns.
C15_ReleaseIdempotent ==
  /\ [](\A id \in 1..next_id :
          /\ Released(id) =>
               /\ \A x \in db_delete_by_id_sync(id) : x.store = store
               /\ [raised |-> FALSE, store |-> store] \in db_delete_by_id_sync(id)
          /\ \A x \in db_delete_by_id_sync(id) :
               ~x.raised => \A row \in x.store : row.id # id)
  /\ [][\A r \in Runs :
          (deletes'[r] # deletes[r] /\ Released(row_id[r]))
            => /\ store' = store
               /\ pc'[r] \in {"empty", "failed"}]_vars

\* The delete of a run's empty message raised after the row was deleted: the
\* run is about to call the delete for the same id a second time.
C15_Witness ==
  \E r \in Runs :
    /\ pc[r] = "rollback"
    /\ "Empty message skipped" \in logs[r]
    /\ deletes[r] = 1
    /\ row_id[r] # None
    /\ Released(row_id[r])

\* The product id of the first product URL written into the update's body
\* ("" for an update of no product post).
ProductOf(u) ==
  IF \E i \in 1..Len(ProductPosts) : ProductPosts[i].upd = u
    THEN ProductPosts[CHOOSE i \in 1..Len(ProductPosts) : ProductPosts[i].upd = u].product
    ELSE ""

\* The body of an update: the text of the message, the joined texts of an album.
Body(u) == IF u.handler = "album_handler" THEN JoinTexts(u.messages)
           ELSE u.messages[1].message

\* The run has derived its key.
Keyed(r) == pc[r] \notin {"idle", "ignored"} /\ product_key[r] # <<>>

\* C16 as stated, for two runs that returned: of two posts with the same first
\* product URL that were inserted on the same day, one (the second) ended in
\* DUPLICATE.
C16_SecondIsDuplicate ==
  \A r, q \in Runs :
    (/\ SameSlot(r, q)
     /\ ProductOf(upd[r]) # ""
     /\ ProductOf(upd[r]) = ProductOf(upd[q])
     /\ Completed(r)
     /\ Completed(q))
      => (pc[r] = "duplicate" \/ pc[q] = "duplicate")

\* C16 amended: the key of a post is "amazon_" and the product id of the first
\* product URL of its body, whatever the caption, the media, the other URLs
\* and the handler, so two posts of one product have one key; a key of a text
\* hash is derived only when no URL of the body yields a product id; and a run
\* that inserts while the table holds the row of another post of the same
\* product for that day ends in DUPLICATE, or in the store-error state when
\* its insert raises.
C16_UrlKeyPrecedence ==
  /\ [](\A r \in Runs :
          Keyed(r) =>
            /\ ProductOf(upd[r]) # "" =>
                 product_key[r] = <<"amazon_", ProductOf(upd[r])>>
            /\ product_key[r][1] \in {"text_", "album_"} =>
                 /\ ProductOf(upd[r]) = ""
                 /\ \A i \in 1..Len(extract_urls(Body(upd[r]))) :
                      extract_product_key(extract_urls(Body(upd[r]))[i]) = <<>>
            /\ \A q \in Runs :
                 (Keyed(q) /\ ProductOf(upd[q]) = ProductOf(upd[r])
                           /\ ProductOf(upd[r]) # "")
                   => product_key[q] = product_key[r])
  /\ [][\A q \in Runs :
          (/\ pc[q] = "keyed"
           /\ insert_res'[q] # "none"
           /\ \E r \in Runs \ {q} :
                /\ Keyed(r)
                /\ ProductOf(upd[r]) # ""
                /\ ProductOf(upd[r]) = ProductOf(upd[q])
                /\ \E row \in store : /\ row.product_key = product_key[r]
                                      /\ row.day_bucket = Calendar[today])
            => pc'[q] \in {"duplicate", "dberror"}]_vars

\* A message and an album name the same product under different captions; the
\* album was forwarded and the message, inserted on the same day, was skipped
\* as a duplicate.
C16_Witness ==
  \E r, q \in Runs :
    /\ upd[r].handler = "handler"
    /\ upd[q].handler = "album_handler"
    /\ ProductOf(upd[r]) = "B0AAAAAAAA"
    /\ ProductOf(upd[q]) = "B0AAAAAAAA"
    /\ Body(upd[r]) # Body(upd[q])
    /\ bucket[r] = bucket[q]
    /\ Forwarded(q)
    /\ pc[r] = "duplicate"
    /\ logs[r] = {"RECEIVED", "Duplicate skipped"}

\* C17: while a run is suspended (in the FloodWait sleep, in a call of the
\* table or in a send), every other run that has not returned can take its
\* next step; and once the first run is suspended every other run returns in
\* the end, whether the first run resumes or not.
C17_RunsDoNotBlock ==
  /\ [](\A q, r \in Runs : (q # r /\ pc[q] \in Suspended) => CanProceed(r))
  /\ \A r \in Runs \ {1} : (pc[1] \in Suspended) ~> (pc[r] \in Terminal)

\* The first run is in its FloodWait sleep and has not resumed; a later run of
\* the same handler has reserved, sent and logged FORWARDED meanwhile.
C17_Witness ==
  \E r \in Runs \ {1} :
    /\ pc[1] = "sleeping"
    /\ upd[r].handler = upd[1].handler
    /\ row_id[r] > row_id[1]
    /\ row_id[1] # None
    /\ sends[r] >= 1
    /\ pc[r] = "forwarded"

\* The run is past its first forward.
PastForward(r) == attempt1[r] # "none" \/ "Empty message skipped" \in logs[r]

\* The first call the run made on the destination (NoCall: it made none).
FirstCall(r) == IF sent[r] = <<>> THEN NoCall ELSE sent[r][1]

\* The first text of the messages that is not empty (the empty text: none is).
FirstNonEmptyText(ms) ==
  LET with == {i \in 1..Len(ms) : ms[i].message # <<>>}
  IN IF with = {} THEN <<>>
     ELSE ms[CHOOSE i \in with : \A j \in with : i <= j].message

\* The ids of the messages that carry media, in their order.
MediaOf(ms) ==
  LET with == SelectSeq(ms, LAMBDA m : m.media)
  IN [i \in 1..Len(with) |-> with[i].id]

\* C18: the first call a run makes on the destination is given by the content
\* of the update.  A message without media and with a text that is not blank
\* is sent as that text; a message with media as its media with the text as
\* caption; an album with media as one group of the media of all its messages
\* with the first non-empty text as caption; an album without media of which
\* some message has a text that is not blank as a text and nothing else.  The
\* call after the FloodWait sleep is the same call again.
C18_RelayFormByContent ==
  \A r \in Runs :
    LET ms == upd[r].messages IN
      /\ (PastForward(r) /\ upd[r].handler = "handler") =>
           /\ (~ms[1].media /\ NonBlank(ms[1].message))
                => FirstCall(r) = send_message(ms[1].message)
           /\ ms[1].media
                => FirstCall(r) = send_file(<<ms[1].id>>, FALSE, ms[1].message)
      /\ (PastForward(r) /\ upd[r].handler = "album_handler") =>
           /\ MediaOf(ms) # <<>>
                => FirstCall(r) = send_file(MediaOf(ms), TRUE, FirstNonEmptyText(ms))
           /\ (MediaOf(ms) = <<>> /\ \E i \in 1..Len(ms) : NonBlank(ms[i].message))
                => /\ FirstCall(r).call = "send_message"
                   /\ FirstCall(r).files = <<>>
                   /\ \E i \in 1..Len(ms) : FirstCall(r).text = ms[i].message
      /\ attempt2[r] # "none" => (Len(sent[r]) = 2 /\ sent[r][2] = sent[r][1])
      /\ Len(sent[r]) = sends[r]

\* C19: the ids the inserts returned are different for different runs and each
\* row of the table has an id of its own; a step removes rows only when a run
\* calls the delete, and then only the row with the id that run's own insert
\* returned, stored under that run's key and day; so the row of every other run
\* that is in the table before the step is in it after the step.
C19_ReleaseOnlyOwnRow ==
  /\ [](/\ \A r, q \in Runs :
             (r # q /\ row_id[r] # None) => row_id[q] # row_id[r]
        /\ \A x, y \in store : x.id = y.id => x = y
        /\ \A r \in Runs :
             row_id[r] # None => (Reserved(r) /\ row_id[r] < next_id))
  /\ [][/\ store \ store' # {} => \E r \in Runs : deletes'[r] # deletes[r]
        /\ \A r \in Runs :
             deletes'[r] # deletes[r] =>
               /\ row_id[r] # None
               /\ store' \subseteq store
               /\ \A row \in store \ store' :
                    /\ row.id = row_id[r]
                    /\ row.product_key = product_key[r]
                    /\ row.day_bucket = bucket[r]
               /\ \A q \in Runs \ {r} :
                    /\ deletes'[q] = deletes[q]
                    /\ OwnRowPresent(q) => OwnRowPresent(q)']_vars

\* The delete of a run's empty message raised after its row was deleted;
\* another run then reserved the same key and day; the first run called the
\* delete for its id again, and the row of the other run is still there.
C19_Witness ==
  \E r, q \in Runs :
    /\ SameSlot(r, q)
    /\ pc[r] = "failed"
    /\ deletes[r] = 2
    /\ row_id[r] # None
    /\ pc[q] \in {"reserved", "sleeping", "forwarded"}
    /\ row_id[q] # None
    /\ row_id[q] > row_id[r]
    /\ OwnRowPresent(q)

\* The table holds a row under the run's key and day that the run's own insert
\* stored: the row has the id the insert returned, or (the insert returned no
\* id) no other run's insert stored a row under that key and day that is left.
LiveReservation(r) ==
  /\ Reserved(r)
  /\ \E row \in store :
       /\ row.product_key = product_key[r]
       /\ row.day_bucket = bucket[r]
       /\ row_id[r] # None => row.id = row_id[r]
       /\ \A q \in Runs \ {r} :
            ~(/\ Reserved(q)
              /\ SameSlot(r, q)
              /\ row_id[q] \in {None, row.id})

\* C20: a run that is at its first forward or at the forward after the
\* FloodWait sleep has a live reservation, and so has a run in the step in
\* which it sends, which leaves the table as it is; a run that has sent
\* reserved; a run that was skipped as a duplicate or whose insert raised has
\* sent nothing and sends nothing.
C20_SendOnlyWhenReserved ==
  /\ [](\A r \in Runs :
          /\ pc[r] \in {"reserved", "sleeping"} => LiveReservation(r)
          /\ sends[r] > 0 => Reserved(r)
          /\ (pc[r] \in {"duplicate", "dberror"} \/ insert_res[r] \in {"duplicate", "error"})
               => (sends[r] = 0 /\ sent[r] = <<>>))
  /\ [][\A r \in Runs :
          (sends'[r] # sends[r] \/ sent'[r] # sent[r]) =>
            /\ pc[r] \in {"reserved", "sleeping"}
            /\ LiveReservation(r)
            /\ store' = store
            /\ LiveReservation(r)']_vars

\* A run sent twice (the first attempt met a FloodWait) with its row in the
\* table all along, and a run with the same key on that day was skipped as a
\* duplicate without a send.
C20_Witness ==
  \E r, q \in Runs :
    /\ SameSlot(r, q)
    /\ sends[r] = 2
    /\ attempt1[r] = "flood"
    /\ attempt2[r] # "none"
    /\ LiveReservation(r)
    /\ pc[q] = "duplicate"
    /\ sends[q] = 0

=============================================================================
